---------------------------- MODULE Spec2Model ----------------------------
(***************************************************************************)
(* Model of the papercut mask extraction core of VYT-PIPE                  *)
(* (src/make_papercut_panel.py).  Images are records                        *)
(*     [w |-> width, h |-> height, px |-> [<<x, y>> |-> sample]]            *)
(* with samples in 0..255; a mode "1" image holds only 0 and 255.  The      *)
(* Pillow primitives the code calls (rank filters, point, chops and         *)
(* ImageDraw.floodfill) are modelled by what they compute on such images.   *)
(***************************************************************************)
EXTENDS Integers, Sequences, FiniteSets, TLC

(* ------------------------------ bounds -------------------------------- *)

\* Canvas width and height of the binary masks drawn as inputs.
W == 3
H == 3
\* Largest closing radius drawn as an input.
MaxRadius == 1

(* ------------------------- image primitives --------------------------- *)

Canvas(w, h) == (0 .. w - 1) \X (0 .. h - 1)

\* The image v as a fully computed value: every Pillow call returns a new,
\* materialised image (TLC would otherwise recompute v at each use).
Force(v) == CHOOSE r \in {v} : r = r

\* Image.new(mode, (w, h), v)
NewImage(w, h, v) == [w |-> w, h |-> h, px |-> [p \in Canvas(w, h) |-> v]]

\* All mode "1" images of a given size.
BinaryImages(w, h) == {[w |-> w, h |-> h, px |-> f] : f \in [Canvas(w, h) -> {0, 255}]}

\* The mode "1" image whose foreground is the pixel set S.
MaskOf(S, w, h) == [w |-> w, h |-> h, px |-> [p \in Canvas(w, h) |-> IF p \in S THEN 255 ELSE 0]]

\* Foreground pixels of a mode "1" image.
On(img) == {p \in DOMAIN img.px : img.px[p] # 0}

\* Image.point(lambda, mode): apply F to every sample.
Point(img, F(_)) == Force([img EXCEPT !.px = [p \in DOMAIN img.px |-> F(img.px[p])]])

\* Image.getbbox() is None: every sample is zero.
NoBBox(img) == \A p \in DOMAIN img.px : img.px[p] = 0

ClampTo(v, lo, hi) == IF v < lo THEN lo ELSE IF v > hi THEN hi ELSE v

SetMax(S) == CHOOSE m \in S : \A x \in S : x <= m

SetMin(S) == CHOOSE m \in S : \A x \in S : m <= x

\* Samples under a size x size rank-filter window centred at p.  RankFilter
\* first expands the image by size // 2, replicating the edge samples.
WindowSamples(img, p, k) ==
    {img.px[<<ClampTo(p[1] + dx, 0, img.w - 1), ClampTo(p[2] + dy, 0, img.h - 1)>>] :
        dx \in -k .. k, dy \in -k .. k}

\* ImageFilter.MaxFilter(size)
MaxFilter(img, size) ==
    Force([img EXCEPT !.px = [p \in DOMAIN img.px |-> SetMax(WindowSamples(img, p, size \div 2))]])

\* ImageFilter.MinFilter(size)
MinFilter(img, size) ==
    Force([img EXCEPT !.px = [p \in DOMAIN img.px |-> SetMin(WindowSamples(img, p, size \div 2))]])

\* ImageChops.invert on a mode "1" image (bytewise complement of 0 / 255).
Invert(img) == Force([img EXCEPT !.px = [p \in DOMAIN img.px |-> 255 - img.px[p]]])

\* ImageChops.logical_and / logical_or on mode "1" images.
LogicalAnd(a, b) ==
    Force([a EXCEPT !.px = [p \in DOMAIN a.px |-> IF a.px[p] # 0 /\ b.px[p] # 0 THEN 255 ELSE 0]])

LogicalOr(a, b) ==
    Force([a EXCEPT !.px = [p \in DOMAIN a.px |-> IF a.px[p] # 0 \/ b.px[p] # 0 THEN 255 ELSE 0]])

\* The four neighbours ImageDraw.floodfill and the BFS fallback visit.
Neighbours4(p) == {<<p[1] + 1, p[2]>>, <<p[1] - 1, p[2]>>, <<p[1], p[2] + 1>>, <<p[1], p[2] - 1>>}

\* The edge / new_edge loop of ImageDraw.floodfill and the queue loop of the
\* BFS: grow `seen` by the 4-neighbours inside `allowed` until nothing is added.
RECURSIVE Spread(_, _, _)
Spread(edge, seen, allowed) ==
    IF edge = {} THEN seen
    ELSE LET new_edge == {q \in UNION {Neighbours4(p) : p \in edge} : q \in allowed /\ q \notin seen}
         IN  Spread(new_edge, seen \cup new_edge, allowed)

\* ImageDraw.floodfill(image, xy, value, thresh=0) on a mode "L" image: the
\* seed's own sample is the background colour; every pixel 4-connected to the
\* seed through samples equal to it is set to value.  Nothing happens when the
\* seed lies outside the image or already holds value.
FloodFill(img, xy, value) ==
    IF xy \notin DOMAIN img.px THEN img
    ELSE LET background == img.px[xy]
             same == {p \in DOMAIN img.px : img.px[p] = background}
             hit == Spread({xy}, {xy}, same)
         IN  IF background = value THEN img
             ELSE Force([img EXCEPT !.px = [p \in DOMAIN img.px |-> IF p \in hit THEN value ELSE img.px[p]]])

(* ------------------------ morphology primitives ----------------------- *)

\* Mutant of _apply_closing: the MinFilter (erosion) step is forgotten.
Mut_closing_without_erosion(mask, radius) ==
    IF radius <= 0 THEN mask
    ELSE LET size == IF 2 * radius + 1 > 3 THEN 2 * radius + 1 ELSE 3
         IN  Point(MaxFilter(mask, size), LAMBDA v : IF v >= 128 THEN 255 ELSE 0)

\* _apply_closing(mask, radius)
_apply_closing(mask, radius) ==
    IF radius <= 0 THEN mask
    ELSE LET size == IF 2 * radius + 1 > 3 THEN 2 * radius + 1 ELSE 3
             dilated == MaxFilter(mask, size)
             eroded == MinFilter(dilated, size)
         IN  Point(eroded, LAMBDA v : IF v >= 128 THEN 255 ELSE 0)

\* Mutant of extract_outline: the erosion is subtracted from nothing (the
\* logical_and with the mask is dropped).
Mut_outline_not_masked(mask, radius) ==
    LET r == IF radius < 1 THEN 1 ELSE radius
        size == IF 2 * r + 1 > 3 THEN 2 * r + 1 ELSE 3
        eroded == MinFilter(mask, size)
    IN  Invert(Point(eroded, LAMBDA v : IF v >= 128 THEN 255 ELSE 0))

\* extract_outline(mask, radius)
extract_outline(mask, radius) ==
    LET r == IF radius < 1 THEN 1 ELSE radius
        size == IF 2 * r + 1 > 3 THEN 2 * r + 1 ELSE 3
        eroded == MinFilter(mask, size)
        eroded_bin == Point(eroded, LAMBDA v : IF v >= 128 THEN 255 ELSE 0)
    IN  LogicalAnd(mask, Invert(eroded_bin))

\* Pixels on the canvas border: the seeds of the BFS fallback.
BorderPixels(w, h) == {p \in Canvas(w, h) : p[1] = 0 \/ p[1] = w - 1 \/ p[2] = 0 \/ p[2] = h - 1}

\* _fill_closed_regions_python(blocked_binary)
_fill_closed_regions_python(blocked_binary) ==
    IF blocked_binary.w = 0 \/ blocked_binary.h = 0
    THEN NewImage(blocked_binary.w, blocked_binary.h, 0)
    ELSE LET free == {p \in DOMAIN blocked_binary.px : blocked_binary.px[p] = 0}
             seeds == BorderPixels(blocked_binary.w, blocked_binary.h) \cap free
             reached == Spread(seeds, seeds, free)
             outside == MaskOf(reached, blocked_binary.w, blocked_binary.h)
             solid == Invert(outside)
         IN  LogicalAnd(solid, Invert(blocked_binary))

\* Mutant of fill_closed_regions: everything not reached from (0, 0) is
\* returned, the walls included.
Mut_fill_keeps_walls(outline, dilation_radius, floodfill_ok) ==
    Invert(Point(FloodFill(outline, <<0, 0>>, 128), LAMBDA v : IF v = 128 THEN 255 ELSE 0))

\* fill_closed_regions(outline, dilation_radius=...); floodfill_ok is FALSE
\* when ImageDraw.floodfill raises AttributeError (very old Pillow).
fill_closed_regions(outline, dilation_radius, floodfill_ok) ==
    LET blocked_l == IF dilation_radius > 0
                     THEN MaxFilter(outline, IF 2 * dilation_radius + 1 > 3
                                             THEN 2 * dilation_radius + 1 ELSE 3)
                     ELSE outline
        blocked_binary == Point(blocked_l, LAMBDA v : IF v > 0 THEN 255 ELSE 0)
        flood_img == FloodFill(blocked_binary, <<0, 0>>, 128)
        outside == Point(flood_img, LAMBDA v : IF v = 128 THEN 255 ELSE 0)
        solid == Invert(outside)
    IN  IF blocked_binary.w = 0 \/ blocked_binary.h = 0
        THEN NewImage(blocked_binary.w, blocked_binary.h, 0)
        ELSE IF ~floodfill_ok THEN _fill_closed_regions_python(blocked_binary)
        ELSE LogicalAnd(solid, Invert(blocked_binary))

(* ------------------------- grayscale filters -------------------------- *)

\* Sample of img at p with the coordinates clamped to the image (edge
\* replication, as the box-blur line kernel extends its first and last sample).
At(img, x, y) == img.px[<<ClampTo(x, 0, img.w - 1), ClampTo(y, 0, img.h - 1)>>]

\* ImageFilter.BoxBlur(1): one horizontal pass, then one vertical pass, each
\* storing (sum * ww + 2^23) >> 24 with ww = 2^24 / 3, which for sums of three
\* 8-bit samples is the nearest integer to sum / 3.
BoxBlur1(img) ==
    LET hor == Force([img EXCEPT !.px = [p \in DOMAIN img.px |->
                   (At(img, p[1] - 1, p[2]) + img.px[p] + At(img, p[1] + 1, p[2]) + 1) \div 3]])
    IN  Force([hor EXCEPT !.px = [p \in DOMAIN hor.px |->
                   (At(hor, p[1], p[2] - 1) + hor.px[p] + At(hor, p[1], p[2] + 1) + 1) \div 3]])

\* ImageChops.subtract(a, b): a - b clipped to 0..255.
Subtract(a, b) == Force([a EXCEPT !.px = [p \in DOMAIN a.px |-> ClampTo(a.px[p] - b.px[p], 0, 255)]])

\* ImageFilter.FIND_EDGES: the 3x3 kernel (-1 ... 8 ... -1), scale 1, clipped
\* to 0..255.  The kernel filter copies the first and last row and column of
\* its input, and copies the whole image when it is smaller than the kernel.
FindEdges(img) ==
    IF img.w < 3 \/ img.h < 3 THEN img
    ELSE Force([img EXCEPT !.px = [p \in DOMAIN img.px |->
            IF p[1] = 0 \/ p[1] = img.w - 1 \/ p[2] = 0 \/ p[2] = img.h - 1
            THEN img.px[p]
            ELSE LET around == img.px[<<p[1] - 1, p[2] - 1>>] + img.px[<<p[1], p[2] - 1>>]
                               + img.px[<<p[1] + 1, p[2] - 1>>] + img.px[<<p[1] - 1, p[2]>>]
                               + img.px[<<p[1] + 1, p[2]>>] + img.px[<<p[1] - 1, p[2] + 1>>]
                               + img.px[<<p[1], p[2] + 1>>] + img.px[<<p[1] + 1, p[2] + 1>>]
                 IN  ClampTo(8 * img.px[p] - around, 0, 255)]])

\* Centre and far weights (ww, fw: 24-bit fixed point) of the extended box
\* kernel by which ImageFilter.GaussianBlur(0.35 * join) is approximated; the
\* box radius is below 1 for these joins, so the kernel has three taps.
GaussWW(join) == CASE join = 1 -> 16092147 [] join = 2 -> 14036938 [] OTHER -> 10611590

GaussFW(join) == CASE join = 1 -> 342534 [] join = 2 -> 1370139 [] OTHER -> 3082813

\* (c * ww + far * fw + 2^23) >> 24, computed in two 12-bit halves.
BoxTap(c, far, ww, fw) ==
    LET hi == c * (ww \div 4096)
        lo == c * (ww % 4096) + far * fw + 8388608
    IN  (hi + lo \div 4096) \div 4096

GaussLineX(img, ww, fw) ==
    Force([img EXCEPT !.px = [p \in DOMAIN img.px |->
        BoxTap(img.px[p], At(img, p[1] - 1, p[2]) + At(img, p[1] + 1, p[2]), ww, fw)]])

GaussLineY(img, ww, fw) ==
    Force([img EXCEPT !.px = [p \in DOMAIN img.px |->
        BoxTap(img.px[p], At(img, p[1], p[2] - 1) + At(img, p[1], p[2] + 1), ww, fw)]])

\* ImageFilter.GaussianBlur(radius = 0.35 * join): three horizontal box
\* passes, then three vertical ones.
GaussianBlur(img, join) ==
    LET ww == GaussWW(join)
        fw == GaussFW(join)
        x3 == GaussLineX(GaussLineX(GaussLineX(img, ww, fw), ww, fw), ww, fw)
    IN  GaussLineY(GaussLineY(GaussLineY(x3, ww, fw), ww, fw), ww, fw)

(* ---------------------- dual-threshold segmenter ----------------------- *)

\* smooth_binary_edges(mask, radius) with radius = 0.35 * join
smooth_binary_edges(mask, join) ==
    IF join <= 0 THEN mask
    ELSE Point(GaussianBlur(mask, join), LAMBDA v : IF v >= 128 THEN 255 ELSE 0)

\* connect_detail_gaps(mask, join_radius, smooth_radius = 0.35 * join_radius)
connect_detail_gaps(mask, join_radius) ==
    LET joined == IF join_radius > 0
                  THEN LogicalOr(mask, _apply_closing(mask, join_radius))
                  ELSE mask
    IN  IF join_radius > 0 THEN smooth_binary_edges(joined, join_radius) ELSE joined

Max2(a, b) == IF a >= b THEN a ELSE b

Min2(a, b) == IF a <= b THEN a ELSE b

\* detect_relative_dark_regions(gray_processed, paper_candidate, t_bg, t_detail)
detect_relative_dark_regions(gray_processed, paper_candidate, t_bg, t_detail, floodfill_ok) ==
    IF NoBBox(paper_candidate) THEN NewImage(gray_processed.w, gray_processed.h, 0)
    ELSE
    LET local_mean == BoxBlur1(gray_processed)
        local_min == MinFilter(gray_processed, 3)
        local_drop == Subtract(local_mean, local_min)
        relative_margin == Max2(6, (t_bg - t_detail) \div 3)
        rel_raw == Point(local_drop, LAMBDA d : IF d >= relative_margin THEN 255 ELSE 0)
        near_bg == Point(gray_processed, LAMBDA g : IF g < t_bg - 2 THEN 255 ELSE 0)
        rel_candidates == LogicalAnd(LogicalAnd(rel_raw, near_bg), paper_candidate)
        edge_map == FindEdges(gray_processed)
        edge_thresh == Max2(20, Min2(96, (t_bg - t_detail) * 2 + 16))
        edge_mask == LogicalAnd(Point(edge_map, LAMBDA v : IF v >= edge_thresh THEN 255 ELSE 0),
                                paper_candidate)
        edge_regions == fill_closed_regions(_apply_closing(edge_mask, 1), 1, floodfill_ok)
        gated == IF NoBBox(edge_mask) THEN rel_candidates
                 ELSE LogicalAnd(rel_candidates, edge_regions)
    IN  _apply_closing(gated, 1)

\* The threshold pair build_masks_from_gray works with (its first two lines).
EffectiveBg(threshold_bg) == Max2(0, Min2(255, threshold_bg))

\* Mutant of EffectiveDetail: the detail threshold is clamped to 0..255
\* instead of 0..t_bg.
Mut_detail_clamped_to_255(threshold_bg, threshold_detail) ==
    Max2(0, Min2(255, threshold_detail))

EffectiveDetail(threshold_bg, threshold_detail) ==
    Max2(0, Min2(EffectiveBg(threshold_bg), threshold_detail))

\* Mutant of limit_holes: paper is built with logical_or instead of logical_and.
Mut_paper_by_logical_or(filled, holes_joined, combined_outline) ==
    LET holes_limited == LogicalAnd(holes_joined, filled)
        paper == LogicalOr(filled, Invert(holes_limited))
    IN  [paper |-> paper, filled |-> filled, holes |-> holes_limited, outline |-> combined_outline]

\* The last steps of build_masks_from_gray: holes are limited to the filled
\* region, paper is the filled region without them, and the MaskResult is made.
limit_holes(filled, holes_joined, combined_outline) ==
    LET holes_limited == LogicalAnd(holes_joined, filled)
        paper == LogicalAnd(filled, Invert(holes_limited))
    IN  [paper |-> paper, filled |-> filled, holes |-> holes_limited, outline |-> combined_outline]

\* build_masks_from_gray(gray_processed, params) -> MaskResult
build_masks_from_gray(gray_processed, params, floodfill_ok) ==
    LET t_bg == EffectiveBg(params.threshold_bg)
        t_detail == EffectiveDetail(params.threshold_bg, params.threshold_detail)
        outline_raw == Point(gray_processed, LAMBDA g : IF g < t_bg THEN 255 ELSE 0)
        outline_closed == _apply_closing(outline_raw, params.dilate_px)
        combined_outline == LogicalOr(outline_raw, outline_closed)
        fill_radius == IF params.dilate_px > 0 THEN params.dilate_px ELSE 0
        filled == fill_closed_regions(outline_closed, fill_radius, floodfill_ok)
        paper_candidate == filled
        holes_raw == Point(gray_processed, LAMBDA g : IF g < t_detail THEN 255 ELSE 0)
        holes_fixed == LogicalAnd(holes_raw, paper_candidate)
        holes_rel == detect_relative_dark_regions(gray_processed, paper_candidate,
                                                  t_bg, t_detail, floodfill_ok)
        holes_seed == IF NoBBox(holes_rel) THEN holes_fixed ELSE LogicalOr(holes_fixed, holes_rel)
        hole_close_radius == IF params.dilate_px > 0 THEN params.dilate_px ELSE 0
        holes_refined == _apply_closing(holes_seed, hole_close_radius)
        detail_outline == extract_outline(holes_refined, 1)
        outline_bridge == Max2(params.dilate_px, params.detail_join_px)
        detail_outline_closed == _apply_closing(detail_outline, outline_bridge)
        detail_filled == fill_closed_regions(detail_outline_closed, outline_bridge, floodfill_ok)
        holes_combined == LogicalOr(holes_refined, detail_filled)
        join_radius == Max2(0, params.detail_join_px)
        holes_joined == connect_detail_gaps(holes_combined, join_radius)
    IN  limit_holes(paper_candidate, holes_joined, combined_outline)

(* ------------------------------ state --------------------------------- *)

VARIABLES
    pc,         \* what the run has computed so far
    mask,       \* binary input mask (a wall mask for the fills)
    radius,     \* closing radius
    fast,       \* fill_closed_regions through ImageDraw.floodfill
    bfs,        \* fill_closed_regions through the BFS fallback
    closed,     \* _apply_closing(mask, radius)
    reclosed,   \* _apply_closing(closed, radius)
    outl,       \* extract_outline(mask, 1)
    refilled,   \* fill_closed_regions(outl, dilation_radius=0)
    gray,       \* processed grayscale image
    params,     \* BWParams
    masks,      \* MaskResult of the latest build_masks_from_gray
    prev,       \* MaskResult of the build before the threshold was raised
    has_floodfill,  \* whether this Pillow has ImageDraw.floodfill
    args,       \* command-line values that main() turns into BWParams
    effective,  \* the pair (t_bg, t_detail) build_masks_from_gray worked with
    invert_mode,    \* invert_mode argument of _should_flip_auto
    should_flip,    \* what _should_flip_auto returned
    scaling,    \* a scale_radius call: its arguments and results
    units,      \* a mm_to_px / px_to_mm round trip
    bridge,     \* a bridge.enforce call: mask, configuration, output
    run,        \* a run of main() or run_pipeline(): stages, files, error
    norm,       \* a normalize_source_image call
    panel,      \* a build_white_on_gray_panel call
    detect      \* a detect_relative_dark_regions call

morphVars == <<mask, radius, fast, bfs, closed, reclosed, outl, refilled>>
segVars == <<gray, params, masks, prev, has_floodfill, args, effective>>
flipVars == <<invert_mode, should_flip>>
extVars == <<scaling, units, bridge, run, norm, panel, detect>>
vars == <<pc, morphVars, segVars, flipVars, extVars>>

\* Placeholder for a result that has not been computed.
NoImage == NewImage(0, 0, 0)

NoMasks == [paper |-> NoImage, filled |-> NoImage, holes |-> NoImage, outline |-> NoImage]

NoParams == [threshold_bg |-> 0, threshold_detail |-> 0, dilate_px |-> 0, detail_join_px |-> 0]

IdleMorph ==
    /\ mask = NoImage
    /\ radius = 0
    /\ fast = NoImage
    /\ bfs = NoImage
    /\ closed = NoImage
    /\ reclosed = NoImage
    /\ outl = NoImage
    /\ refilled = NoImage

NoArgs == [threshold |-> 0, detail_delta |-> 0, dilate_px |-> 0, detail_join_px |-> 0]

NoPair == [t_bg |-> 0, t_detail |-> 0]

IdleSeg ==
    /\ gray = NoImage
    /\ params = NoParams
    /\ masks = NoMasks
    /\ prev = NoMasks
    /\ has_floodfill = TRUE
    /\ args = NoArgs
    /\ effective = NoPair

IdleFlip ==
    /\ invert_mode = ""
    /\ should_flip = FALSE

\* Value of a variable that the run at hand does not use.
Idle == <<>>

IdleExt ==
    /\ scaling = Idle
    /\ units = Idle
    /\ bridge = Idle
    /\ run = Idle
    /\ norm = Idle
    /\ panel = Idle
    /\ detect = Idle

(* --------------------- flood-fill specification ----------------------- *)

InitFill ==
    /\ pc = {}
    /\ mask \in BinaryImages(W, H)
    /\ radius = 0
    /\ fast = NoImage
    /\ bfs = NoImage
    /\ closed = NoImage
    /\ reclosed = NoImage
    /\ outl = NoImage
    /\ refilled = NoImage
    /\ IdleSeg
    /\ IdleFlip
    /\ IdleExt

\* fill_closed_regions(outline, dilation_radius=0) with ImageDraw.floodfill.
FillFast ==
    /\ "fast" \notin pc
    /\ fast' = fill_closed_regions(mask, 0, TRUE)
    /\ pc' = pc \cup {"fast"}
    /\ UNCHANGED <<mask, radius, bfs, closed, reclosed, outl, refilled, segVars, flipVars, extVars>>

\* The same call when ImageDraw.floodfill is unavailable.
FillFallback ==
    /\ "bfs" \notin pc
    /\ bfs' = fill_closed_regions(mask, 0, FALSE)
    /\ pc' = pc \cup {"bfs"}
    /\ UNCHANGED <<mask, radius, fast, closed, reclosed, outl, refilled, segVars, flipVars, extVars>>

NextFill == FillFast \/ FillFallback

SpecFill == InitFill /\ [][NextFill]_vars

\* Pixels reachable from the canvas border by a 4-connected path of non-wall
\* pixels: the least set holding the non-wall border pixels and closed under
\* stepping to a non-wall 4-neighbour.
RECURSIVE GrowReach(_, _)
GrowReach(R, free) ==
    LET more == {q \in free : q \notin R /\ \E p \in R : q \in Neighbours4(p)}
    IN  IF more = {} THEN R ELSE GrowReach(R \cup more, free)

BorderReachable(walls) ==
    LET free == {p \in DOMAIN walls.px : walls.px[p] = 0}
    IN  GrowReach({p \in free : p[1] = 0 \/ p[1] = walls.w - 1 \/ p[2] = 0 \/ p[2] = walls.h - 1},
                  free)

\* C2: the floodfill path and the BFS fallback of fill_closed_regions return
\* bit-identical interiors for every wall mask, also when (0,0) is a wall and
\* when the walls split the border background.
C2_FillParity == {"fast", "bfs"} \subseteq pc => fast = bfs

\* C3: fill_closed_regions(outline, 0) returns exactly the non-wall pixels
\* that no 4-connected path of non-wall pixels joins to the canvas border.
C3_FillIsEnclosed ==
    "fast" \in pc =>
        On(fast) = {p \in DOMAIN mask.px : mask.px[p] = 0} \ BorderReachable(mask)

(* ----------------------- closing specification ------------------------ *)

InitClose ==
    /\ pc = {}
    /\ mask \in BinaryImages(W, H)
    /\ radius \in 1 .. MaxRadius
    /\ fast = NoImage
    /\ bfs = NoImage
    /\ closed = NoImage
    /\ reclosed = NoImage
    /\ outl = NoImage
    /\ refilled = NoImage
    /\ IdleSeg
    /\ IdleFlip
    /\ IdleExt

\* closed = _apply_closing(mask, radius)
Close ==
    /\ pc = {}
    /\ closed' = _apply_closing(mask, radius)
    /\ pc' = {"closed"}
    /\ UNCHANGED <<mask, radius, fast, bfs, reclosed, outl, refilled, segVars, flipVars, extVars>>

\* reclosed = _apply_closing(closed, radius)
Reclose ==
    /\ pc = {"closed"}
    /\ reclosed' = _apply_closing(closed, radius)
    /\ pc' = {"closed", "reclosed"}
    /\ UNCHANGED <<mask, radius, fast, bfs, closed, outl, refilled, segVars, flipVars, extVars>>

NextClose == Close \/ Reclose

SpecClose == InitClose /\ [][NextClose]_vars

\* C9: closing is idempotent: closing the closed mask again with the same
\* radius (>= 1) changes no pixel, also when foreground touches the canvas edge.
C9_ClosingIdempotent == "reclosed" \in pc => reclosed = closed

\* Witness for C9: a mask with foreground on the canvas edge that the first
\* closing really changed, and that was closed a second time.
C9_Witness ==
    /\ "reclosed" \in pc
    /\ closed # mask
    /\ On(mask) \cap BorderPixels(mask.w, mask.h) # {}
    /\ On(closed) # DOMAIN mask.px

Neighbours8(p) ==
    {<<p[1] + dx, p[2] + dy>> : dx \in -1 .. 1, dy \in -1 .. 1} \ {p}

RECURSIVE Grow8(_, _)
Grow8(R, S) ==
    LET more == {q \in S : q \notin R /\ \E p \in R : q \in Neighbours8(p)}
    IN  IF more = {} THEN R ELSE Grow8(R \cup more, S)

\* A single solid shape clear of the border: non-empty, connected, touching no
\* border pixel, and hole-free (every background pixel is joined to the border
\* by a 4-connected background path, the connectivity the fill works with).
SolidShape(m) ==
    /\ On(m) # {}
    /\ On(m) \cap BorderPixels(m.w, m.h) = {}
    /\ Grow8({CHOOSE p \in On(m) : TRUE}, On(m)) = On(m)
    /\ BorderReachable(m) = DOMAIN m.px \ On(m)

\* Pixels whose whole 3x3 neighbourhood is foreground.
Eroded3(m) == {p \in On(m) : Neighbours8(p) \subseteq On(m)}

(* ------------------- outline / fill specification --------------------- *)

\* m drawn on a canvas one pixel larger on every side (an empty margin).
Pad(m) ==
    [w |-> m.w + 2, h |-> m.h + 2,
     px |-> [p \in Canvas(m.w + 2, m.h + 2) |->
                IF <<p[1] - 1, p[2] - 1>> \in DOMAIN m.px THEN m.px[<<p[1] - 1, p[2] - 1>>] ELSE 0]]

\* Every solid shape that fits a W x H box, on a canvas with a 1-pixel margin.
InitDual ==
    /\ pc = {}
    /\ mask \in {m \in {Pad(x) : x \in BinaryImages(W, H)} : SolidShape(m)}
    /\ radius = 1
    /\ fast = NoImage
    /\ bfs = NoImage
    /\ closed = NoImage
    /\ reclosed = NoImage
    /\ outl = NoImage
    /\ refilled = NoImage
    /\ IdleSeg
    /\ IdleFlip
    /\ IdleExt

\* outl = extract_outline(mask, 1)
Outline ==
    /\ pc = {}
    /\ outl' = extract_outline(mask, radius)
    /\ pc' = {"outlined"}
    /\ UNCHANGED <<mask, radius, fast, bfs, closed, reclosed, refilled, segVars, flipVars, extVars>>

\* refilled = fill_closed_regions(outl, dilation_radius=0), on either path.
Refill ==
    /\ pc = {"outlined"}
    /\ \E floodfill_ok \in BOOLEAN : refilled' = fill_closed_regions(outl, 0, floodfill_ok)
    /\ pc' = {"outlined", "refilled"}
    /\ UNCHANGED <<mask, radius, fast, bfs, closed, reclosed, outl, segVars, flipVars, extVars>>

NextDual == Outline \/ Refill

SpecDual == InitDual /\ [][NextDual]_vars

\* C10: for a single solid shape clear of the border, the radius-1 outline lies
\* inside the shape and filling the outline gives back the shape minus the
\* outline, i.e. its 3x3 erosion: the areas differ by the outline band only.
C10_FillOutlineDuality ==
    ("refilled" \in pc /\ SolidShape(mask)) =>
        /\ On(outl) \subseteq On(mask)
        /\ On(refilled) = On(mask) \ On(outl)
        /\ On(refilled) = Eroded3(mask)
        /\ Cardinality(On(mask)) - Cardinality(On(refilled)) = Cardinality(On(outl))

\* Witness for C10: a solid shape whose refilled interior is not empty.
C10_Witness == "refilled" \in pc /\ SolidShape(mask) /\ On(refilled) # {}

(* ---------------------- segmenter specification ----------------------- *)

\* Largest number of pixels painted onto a uniform canvas to draw an input.
MaxInk == 2

RECURSIVE SubsetsUpTo(_, _)
SubsetsUpTo(S, k) ==
    IF k = 0 THEN {{}}
    ELSE LET smaller == SubsetsUpTo(S, k - 1)
         IN  smaller \cup {T \cup {x} : T \in smaller, x \in S}

\* Grayscale image with the pixels of S at level ink and the others at base.
Tone(S, ink, base, w, h) ==
    [w |-> w, h |-> h, px |-> [p \in Canvas(w, h) |-> IF p \in S THEN ink ELSE base]]

\* Two-tone inputs: up to MaxInk dark pixels on a light canvas, or light
\* pixels on a dark canvas.
GrayInputs ==
    {Tone(S, t[1], t[2], W, H) : S \in SubsetsUpTo(Canvas(W, H), MaxInk),
                                 t \in {<<100, 230>>, <<230, 100>>}}

\* BWParams as a caller hands them over.
ParamInputs ==
    [threshold_bg : {200}, threshold_detail : {140},
     dilate_px : 0 .. MaxRadius, detail_join_px : {0, 1}]

InitSeg ==
    /\ pc = {"params"}
    /\ IdleMorph
    /\ gray \in GrayInputs
    /\ params \in ParamInputs
    /\ masks = NoMasks
    /\ prev = NoMasks
    /\ has_floodfill \in BOOLEAN
    /\ args = NoArgs
    /\ effective = NoPair
    /\ IdleFlip
    /\ IdleExt

\* masks = build_masks_from_gray(gray, params)
Build ==
    /\ pc = {"params"}
    /\ masks' = build_masks_from_gray(gray, params, has_floodfill)
    /\ effective' = [t_bg |-> EffectiveBg(params.threshold_bg),
                     t_detail |-> EffectiveDetail(params.threshold_bg, params.threshold_detail)]
    /\ pc' = {"params", "built"}
    /\ UNCHANGED <<morphVars, flipVars, extVars, gray, params, prev, has_floodfill, args>>

\* The same image is segmented again with a higher threshold_bg and everything
\* else unchanged; the earlier MaskResult is kept in prev.
RaiseThreshold ==
    /\ pc = {"params", "built"}
    /\ \E t \in {200, 240} :
        /\ t > params.threshold_bg
        /\ params' = [params EXCEPT !.threshold_bg = t]
    /\ prev' = masks
    /\ masks' = build_masks_from_gray(gray, params', has_floodfill)
    /\ effective' = [t_bg |-> EffectiveBg(params'.threshold_bg),
                     t_detail |-> EffectiveDetail(params'.threshold_bg, params'.threshold_detail)]
    /\ pc' = {"params", "built", "rebuilt"}
    /\ UNCHANGED <<morphVars, flipVars, extVars, gray, has_floodfill, args>>

NextSeg == Build \/ RaiseThreshold

SpecSeg == InitSeg /\ [][NextSeg]_vars

\* C1: in every MaskResult, paper is filled AND NOT holes pixel for pixel,
\* and holes lies inside filled.
C1_MaskInvariant ==
    "built" \in pc =>
        /\ \A p \in DOMAIN masks.paper.px :
              (masks.paper.px[p] # 0) <=> (masks.filled.px[p] # 0 /\ masks.holes.px[p] = 0)
        /\ On(masks.holes) \subseteq On(masks.filled)

\* Witness for C1: a build whose filled region is neither empty nor everything.
C1_Witness ==
    /\ "built" \in pc
    /\ On(masks.filled) # {}
    /\ On(masks.filled) # DOMAIN gray.px
    /\ params.dilate_px > 0

\* C7: raising t_bg (same image, same t_detail and radii) never lowers the
\* number of foreground pixels of filled.
C7_ThresholdMonotone ==
    "rebuilt" \in pc => Cardinality(On(prev.filled)) <= Cardinality(On(masks.filled))

\* The dark pixels of the image: those below the effective detail threshold.
DarkShape == MaskOf({p \in DOMAIN gray.px : gray.px[p] < effective.t_detail}, gray.w, gray.h)

\* C8: on a light canvas (>= t_bg) holding one solid dark shape (< t_detail)
\* clear of the border, with dilate_px = 0, filled is exactly the dark shape
\* and the paper area is within 1% of the shape's area.
C8_SolidShapeScenario ==
    ( /\ pc = {"params", "built"}
      /\ params.dilate_px = 0
      /\ SolidShape(DarkShape)
      /\ \A p \in DOMAIN gray.px : gray.px[p] < effective.t_detail \/ gray.px[p] >= effective.t_bg )
    => /\ masks.filled = DarkShape
       /\ 100 * Cardinality(On(masks.paper)) >= 99 * Cardinality(On(DarkShape))
       /\ 100 * Cardinality(On(masks.paper)) <= 101 * Cardinality(On(DarkShape))

bw_params(a) ==
    LET threshold_bg == Max2(0, Min2(255, a.threshold))
        threshold_detail == Max2(0, threshold_bg - a.detail_delta)
    IN  [threshold_bg |-> threshold_bg,
         threshold_detail |-> threshold_detail,
         dilate_px |-> Max2(0, a.dilate_px),
         detail_join_px |-> Max2(0, a.detail_join_px)]

\* Command lines: --threshold and --detail-delta inside and outside 0..255,
\* negative deltas included.
ArgInputs ==
    [threshold : {-40, 0, 90, 200, 255, 300},
     detail_delta : {-300, -60, 0, 60, 300},
     dilate_px : {-1, 1},
     detail_join_px : {0}]

\* BWParams handed straight to the library, thresholds unchecked.
RawParamInputs ==
    [threshold_bg : {-40, 0, 90, 200, 255, 300},
     threshold_detail : {-300, -1, 0, 140, 260, 400},
     dilate_px : {0},
     detail_join_px : {0, 1}]

\* A light canvas with at most one dark pixel.
ThreshGrays == {Tone(S, 100, 230, W, H) : S \in SubsetsUpTo(Canvas(W, H), 1)}

\* Either the command line is about to be read by main(), or a caller is
\* about to hand BWParams to build_masks_from_gray directly.
InitThresh ==
    /\ IdleMorph
    /\ IdleFlip
    /\ IdleExt
    /\ gray \in ThreshGrays
    /\ \/ pc = {"args"} /\ args \in ArgInputs /\ params = NoParams
       \/ pc = {"params"} /\ args = NoArgs /\ params \in RawParamInputs
    /\ masks = NoMasks
    /\ prev = NoMasks
    /\ has_floodfill \in BOOLEAN
    /\ effective = NoPair

\* main(): threshold_bg, threshold_detail and the BWParams made of them.
Main ==
    /\ pc = {"args"}
    /\ params' = bw_params(args)
    /\ pc' = {"params"}
    /\ UNCHANGED <<morphVars, flipVars, extVars, gray, masks, prev, has_floodfill, args, effective>>

NextThresh == Main \/ Build

SpecThresh == InitThresh /\ [][NextThresh]_vars

\* C6: whatever integers arrive as threshold_bg and threshold_detail (out of
\* range, or detail above bg as a negative --detail-delta gives), the pair
\* build_masks_from_gray works with satisfies 0 <= t_detail <= t_bg <= 255,
\* and the build completes with masks of the image's size.
C6_ThresholdsClamped ==
    "built" \in pc =>
        /\ 0 <= effective.t_detail
        /\ effective.t_detail <= effective.t_bg
        /\ effective.t_bg <= 255
        /\ DOMAIN masks.paper.px = DOMAIN gray.px
        /\ DOMAIN masks.filled.px = DOMAIN gray.px

\* Witness for C6: a negative --detail-delta put threshold_detail above
\* threshold_bg (and above 255), and the build went through.
C6_Witness ==
    /\ "built" \in pc
    /\ args.detail_delta < 0
    /\ params.threshold_detail > params.threshold_bg
    /\ params.threshold_detail > 255
    /\ effective.t_detail = effective.t_bg

(* ----------------------- auto-flip specification ----------------------- *)

\* Canvas of the auto-flip inputs.
FlipW == 5
FlipH == 4

\* str.lower() on the mode strings handed to _should_flip_auto.
Lower(s) ==
    CASE s = "FLIP" -> "flip"
      [] s = "Keep" -> "keep"
      [] s = "AUTO" -> "auto"
      [] OTHER -> s

RECURSIVE SumPx(_, _)
SumPx(img, S) ==
    IF S = {} THEN 0
    ELSE LET p == CHOOSE q \in S : TRUE
         IN  img.px[p] + SumPx(img, S \ {p})

\* _compute_mask_ratio(mask): white pixels / total pixels, kept as a fraction
\* (0/1 for an empty canvas).
_compute_mask_ratio(m) ==
    LET total_pixels == m.w * m.h
    IN  IF total_pixels = 0 THEN [num |-> 0, den |-> 1]
        ELSE [num |-> Cardinality(On(m)), den |-> total_pixels]

\* _box_mean(box): pixel sum and area of the crop; (0, 0) for an empty box.
_box_mean(img, box) ==
    IF box[1] >= box[3] \/ box[2] >= box[4] THEN [sum |-> 0, area |-> 0]
    ELSE [sum |-> SumPx(img, {p \in DOMAIN img.px :
                                /\ box[1] <= p[1] /\ p[1] < box[3]
                                /\ box[2] <= p[2] /\ p[2] < box[4]}),
          area |-> (box[3] - box[1]) * (box[4] - box[2])]

\* border_fraction of _border_and_center_means, in percent.
BorderPercent == 12

\* int(round(n * border_fraction)): n * 12 / 100 is never halfway between two
\* integers, so rounding to nearest is floor(x + 1/2).
RoundFraction(n) == (n * BorderPercent + 50) \div 100

\* _border_and_center_means(gray): both means as fractions num/den.
_border_and_center_means(img) ==
    IF img.w = 0 \/ img.h = 0
    THEN [border |-> [num |-> 0, den |-> 1], center |-> [num |-> 0, den |-> 1]]
    ELSE
    LET w == img.w
        h == img.h
        bw == Max2(1, RoundFraction(w))
        bh == Max2(1, RoundFraction(h))
        top == _box_mean(img, <<0, 0, w, bh>>)
        bottom == _box_mean(img, <<0, h - bh, w, h>>)
        left == _box_mean(img, <<0, bh, bw, h - bh>>)
        right == _box_mean(img, <<w - bw, bh, w, h - bh>>)
        center == _box_mean(img, <<bw, bh, w - bw, h - bh>>)
        border_sum == top.sum + bottom.sum + left.sum + right.sum
        border_area == top.area + bottom.area + left.area + right.area
    IN  [border |-> IF border_area = 0 THEN [num |-> 0, den |-> 1]
                    ELSE [num |-> border_sum, den |-> border_area],
         center |-> IF center.area = 0
                    THEN [num |-> SumPx(img, DOMAIN img.px), den |-> w * h]
                    ELSE [num |-> center.sum, den |-> center.area]]

\* Mutant of RatioAtMostHalf: a ratio of exactly one half no longer keeps.
Mut_ratio_below_half(r) == 2 * r.num < r.den

\* paper_ratio <= 0.5
RatioAtMostHalf(r) == 2 * r.num <= r.den

\* tolerance of _should_flip_auto.
DefaultTolerance == 5

\* border_mean + tolerance < center_mean, on fractions.
BorderPlusToleranceBelowCenter(m, tolerance) ==
    (m.border.num + tolerance * m.border.den) * m.center.den < m.center.num * m.border.den

\* _should_flip_auto(gray_processed, mask_result, invert_mode, tolerance=5.0)
_should_flip_auto(gray_processed, mask_result, mode_arg, tolerance) ==
    LET mode == Lower(mode_arg)
    IN  IF mode = "flip" THEN TRUE
        ELSE IF mode = "keep" THEN FALSE
        ELSE IF RatioAtMostHalf(_compute_mask_ratio(mask_result.paper)) THEN FALSE
        ELSE BorderPlusToleranceBelowCenter(_border_and_center_means(gray_processed), tolerance)

\* Grayscale image with the outermost ring at level b (its corner pixel
\* raised by bump) and everything inside the ring at level c.
Framed(b, c, bump) ==
    [w |-> FlipW, h |-> FlipH,
     px |-> [p \in Canvas(FlipW, FlipH) |->
                IF p = <<0, 0>> THEN b + bump
                ELSE IF p \in BorderPixels(FlipW, FlipH) THEN b
                ELSE c]]

FlipLevels == {40, 45, 46, 220}

FlipGrays == {Framed(b, c, bump) : b \in FlipLevels, c \in FlipLevels, bump \in {0, 1}}

\* Paper mask whose first k pixels in raster order are white.
PrefixMask(k) ==
    MaskOf({p \in Canvas(FlipW, FlipH) : p[2] * FlipW + p[1] < k}, FlipW, FlipH)

\* MaskResult whose paper is m and whose holes are empty.
ResultWithPaper(m) ==
    [paper |-> m, filled |-> m,
     holes |-> NewImage(m.w, m.h, 0), outline |-> NewImage(m.w, m.h, 0)]

FlipModes == {"auto", "keep", "flip", "FLIP", "Keep"}

InitFlip ==
    /\ pc = {"preview"}
    /\ IdleMorph
    /\ gray \in FlipGrays
    /\ params = NoParams
    /\ masks \in {ResultWithPaper(PrefixMask(k)) : k \in 0 .. FlipW * FlipH}
    /\ prev = NoMasks
    /\ has_floodfill = TRUE
    /\ args = NoArgs
    /\ effective = NoPair
    /\ invert_mode \in FlipModes
    /\ should_flip = FALSE
    /\ IdleExt

\* should_flip = _should_flip_auto(processed_gray, preview_masks, invert_mode)
Decide ==
    /\ pc = {"preview"}
    /\ should_flip' = _should_flip_auto(gray, masks, invert_mode, DefaultTolerance)
    /\ pc' = {"preview", "decided"}
    /\ UNCHANGED <<morphVars, segVars, extVars, invert_mode>>

NextFlip == Decide

SpecFlip == InitFlip /\ [][NextFlip]_vars

\* Twice the white pixels of the paper mask exceed the pixel count: ratio > 0.5.
PaperMajority == 2 * Cardinality(On(masks.paper)) > masks.paper.w * masks.paper.h

\* Mean of the outermost ring exceeds the mean inside it by more than 5 levels.
BorderBrighterThanCenter ==
    LET ring == BorderPixels(gray.w, gray.h)
        inner == DOMAIN gray.px \ ring
    IN  SumPx(gray, ring) * Cardinality(inner)
            > (SumPx(gray, inner) + 5 * Cardinality(inner)) * Cardinality(ring)

\* C4: in auto mode with paper ratio > 0.5 the decision is flip exactly when
\* the border band is brighter than the centre by more than 5 levels (so
\* border 220, centre 40, ratio 0.85 flips).
C4_AutoFlipWhenBorderBrighter ==
    ("decided" \in pc /\ invert_mode = "auto" /\ PaperMajority) =>
        (should_flip <=> BorderBrighterThanCenter)

\* C5: flip always answers TRUE, keep always answers FALSE, and auto with a
\* paper ratio <= 0.5 always answers FALSE, whatever the image's brightness.
C5_UnconditionalCases ==
    "decided" \in pc =>
        /\ invert_mode \in {"flip", "FLIP"} => should_flip
        /\ invert_mode \in {"keep", "Keep"} => ~should_flip
        /\ (invert_mode = "auto" /\ ~PaperMajority) => ~should_flip

\* Witness for C5: auto mode, a paper ratio of exactly one half, and a centre
\* brighter than the border by far more than the tolerance: the brightness
\* test would say TRUE had it been consulted.
C5_Witness ==
    /\ "decided" \in pc
    /\ invert_mode = "auto"
    /\ 2 * Cardinality(On(masks.paper)) = masks.paper.w * masks.paper.h
    /\ gray.px[<<0, 1>>] = 40
    /\ gray.px[<<1, 1>>] = 220
    /\ ~should_flip

(* --------------------- scale_radius specification ---------------------- *)

\* scale_factor is a fraction q / ScaleDen, exponent a fraction k / 2, so that
\* base_radius * scale ** exponent is the square root of a fraction of integers.
ScaleDen == 4
MaxScaleNum == 12
MaxExpHalves == 3
MaxBase == 3
MaxClamp == 4

RECURSIVE Power(_, _)
Power(b, n) == IF n = 0 THEN 1 ELSE b * Power(b, n - 1)

\* Smallest n >= from with (2n + 1)^2 * B >= 4 * A, i.e. n + 1/2 >= sqrt(A / B).
RECURSIVE FirstAtLeast(_, _, _)
FirstAtLeast(from, A, B) ==
    IF (2 * from + 1) * (2 * from + 1) * B >= 4 * A THEN from
    ELSE FirstAtLeast(from + 1, A, B)

\* round(sqrt(A / B)) as Python 3 rounds: to the nearest integer, a tie to
\* the even neighbour.
RoundRoot(A, B) ==
    LET n == FirstAtLeast(0, A, B)
        tie == (2 * n + 1) * (2 * n + 1) * B = 4 * A
    IN  IF tie /\ n % 2 = 1 THEN n + 1 ELSE n

\* Mutant of effective_scale: scale factors below 1 are taken as they are.
Mut_scale_not_floored(scale_num) == scale_num

\* effective_scale = max(scale_factor, 1.0), as a numerator over ScaleDen.
effective_scale(scale_num) == Max2(scale_num, ScaleDen)

\* scaled = int(round(base_radius * (effective_scale ** exponent)))
ScaledRadius(base_radius, scale_num, exp_halves) ==
    RoundRoot(base_radius * base_radius * Power(effective_scale(scale_num), exp_halves),
              Power(ScaleDen, exp_halves))

\* Mutant of ClampThenFloor: the floor at 1 is applied before the ceiling.
Mut_floor_then_clamp(scaled, clamp) ==
    IF clamp # <<>> THEN Min2(Max2(1, scaled), clamp[1]) ELSE Max2(1, scaled)

\* if clamp is not None: scaled = min(scaled, clamp); return max(1, scaled).
\* clamp is << >> for None and <<c>> for the integer c.
ClampThenFloor(scaled, clamp) ==
    Max2(1, IF clamp # <<>> THEN Min2(scaled, clamp[1]) ELSE scaled)

\* scale_radius(base_radius, scale_factor, exponent=..., clamp=...)
scale_radius(base_radius, scale_num, exp_halves, clamp) ==
    IF base_radius <= 0 THEN 0
    ELSE ClampThenFloor(ScaledRadius(base_radius, scale_num, exp_halves), clamp)

ScaleInputs ==
    [base_radius : -1 .. MaxBase,
     scale_num : 0 .. MaxScaleNum,
     exp_halves : 1 .. MaxExpHalves,
     clamp : {<<>>} \cup {<<c>> : c \in 0 .. MaxClamp}]

\* A call is about to be made; nothing has been computed.
NoScaled == [scale_num |-> 0, result |-> 0]

InitScale ==
    /\ pc = {"call"}
    /\ IdleMorph
    /\ IdleSeg
    /\ IdleFlip
    /\ \E a \in ScaleInputs : scaling = [arg |-> a, result |-> 0, prev |-> NoScaled]
    /\ units = Idle
    /\ bridge = Idle
    /\ run = Idle
    /\ norm = Idle
    /\ panel = Idle
    /\ detect = Idle

\* result = scale_radius(base_radius, scale_factor, exponent=e, clamp=c)
Scale ==
    /\ pc = {"call"}
    /\ scaling' = [scaling EXCEPT !.result =
                      scale_radius(scaling.arg.base_radius, scaling.arg.scale_num,
                                   scaling.arg.exp_halves, scaling.arg.clamp)]
    /\ pc' = {"call", "scaled"}
    /\ UNCHANGED <<morphVars, segVars, flipVars, detect, units, bridge, run, norm, panel>>

\* The same call with a larger scale_factor; the earlier call is kept in prev.
ScaleUp ==
    /\ pc = {"call", "scaled"}
    /\ \E q \in 0 .. MaxScaleNum :
        /\ q > scaling.arg.scale_num
        /\ scaling' = [arg |-> [scaling.arg EXCEPT !.scale_num = q],
                       result |-> scale_radius(scaling.arg.base_radius, q,
                                               scaling.arg.exp_halves, scaling.arg.clamp),
                       prev |-> [scale_num |-> scaling.arg.scale_num,
                                 result |-> scaling.result]]
    /\ pc' = {"call", "scaled", "rescaled"}
    /\ UNCHANGED <<morphVars, segVars, flipVars, detect, units, bridge, run, norm, panel>>

NextScale == Scale \/ ScaleUp

SpecScale == InitScale /\ [][NextScale]_vars

\* C11: for fixed base_radius > 0, exponent > 0 and clamp, a larger scale
\* factor never gives a smaller radius, and a scale factor below 1 gives the
\* radius of scale factor 1.
C11_ScaleMonotone ==
    /\ ("rescaled" \in pc /\ scaling.arg.base_radius > 0) =>
           scaling.prev.result <= scaling.result
    /\ ("rescaled" \in pc /\ scaling.arg.base_radius > 0
            /\ scaling.arg.scale_num <= ScaleDen) =>
           scaling.prev.result = scaling.result

\* Witness for C11: a call at a scale factor below 1, then the same call at
\* a larger factor that gave a larger radius.
C11_Witness ==
    /\ "rescaled" \in pc
    /\ scaling.arg.base_radius > 0
    /\ scaling.prev.scale_num < ScaleDen
    /\ scaling.prev.result < scaling.result

\* The unclamped radius r is the rounding of base * scale ** exponent:
\* |r - x| <= 1/2 for x = base * (max(q, ScaleDen) / ScaleDen) ** (k / 2).
IsRoundedScale(r, a) ==
    LET q == IF a.scale_num < ScaleDen THEN ScaleDen ELSE a.scale_num
        A == a.base_radius * a.base_radius * Power(q, a.exp_halves)
        B == Power(ScaleDen, a.exp_halves)
    IN  /\ (2 * r - 1) * (2 * r - 1) * B <= 4 * A
        /\ 4 * A <= (2 * r + 1) * (2 * r + 1) * B

\* C12: scale_radius is 0 for base_radius <= 0; otherwise it is the rounded
\* base * max(scale, 1) ** exponent, cut to the ceiling if one is given, then
\* raised to at least 1: so it is >= 1 and <= any ceiling that is >= 1.
C12_ScaleRadiusValue ==
    "scaled" \in pc =>
        LET a == scaling.arg
            res == scaling.result
        IN  /\ a.base_radius <= 0 => res = 0
            /\ a.base_radius > 0 =>
                  /\ res >= 1
                  /\ (a.clamp # <<>> /\ a.clamp[1] >= 1) => res <= a.clamp[1]
                  /\ \E r \in 1 .. (res + MaxBase * MaxScaleNum * MaxScaleNum) :
                        /\ IsRoundedScale(r, a)
                        /\ res = Max2(1, IF a.clamp # <<>> THEN Min2(r, a.clamp[1]) ELSE r)

\* Witness for C12: a call whose rounded radius was cut by the ceiling, and
\* the ceiling is reached exactly.
C12_Witness ==
    /\ "scaled" \in pc
    /\ scaling.arg.base_radius > 0
    /\ scaling.arg.clamp # <<>>
    /\ scaling.arg.clamp[1] >= 2
    /\ scaling.result = scaling.arg.clamp[1]
    /\ ~IsRoundedScale(scaling.result, scaling.arg)

(* ------------------------ units specification -------------------------- *)

\* Millimetres are held in tenths (mm10), so MM_PER_INCH is 254 tenths.
MM10_PER_INCH == 254

\* Lengths 0.0 .. MaxTenths / 10 mm are tried next to the page sizes.
MaxTenths == 40

\* round(n / d) for n >= 0, d > 0 as Python 3 rounds: ties go to the even
\* neighbour.
RoundDiv(n, d) ==
    LET r == (2 * n + d) \div (2 * d)
    IN  IF (2 * n + d) % (2 * d) = 0 /\ r % 2 = 1 THEN r - 1 ELSE r

\* Mutant of mm_to_px: the centimetre constant of cm_to_px (2.54) is used.
Mut_cm_to_px(mm10, dpi) == RoundDiv(mm10 * dpi * 10, MM10_PER_INCH)

\* mm_to_px(mm, dpi) = int(round(mm * dpi / MM_PER_INCH))
mm_to_px(mm10, dpi) == RoundDiv(mm10 * dpi, MM10_PER_INCH)

\* px_to_mm(px, dpi) = (px / dpi) * MM_PER_INCH as a fraction of millimetres,
\* 0.0 when dpi <= 0 or px <= 0.
px_to_mm(px, dpi) ==
    IF dpi <= 0 \/ px <= 0 THEN [num |-> 0, den |-> 1]
    ELSE [num |-> px * MM10_PER_INCH, den |-> 10 * dpi]

UnitDpis == {72, 96, 150, 300, 600}

UnitLengths == (0 .. MaxTenths) \cup {100, 2100, 2970}

InitUnits ==
    /\ pc = {"mm"}
    /\ IdleMorph
    /\ IdleSeg
    /\ IdleFlip
    /\ scaling = Idle
    /\ \E m \in UnitLengths, d \in UnitDpis :
          units = [mm10 |-> m, dpi |-> d, px |-> 0, back |-> [num |-> 0, den |-> 1]]
    /\ bridge = Idle
    /\ run = Idle
    /\ norm = Idle
    /\ panel = Idle
    /\ detect = Idle

\* px = mm_to_px(mm, dpi)
ToPx ==
    /\ pc = {"mm"}
    /\ units' = [units EXCEPT !.px = mm_to_px(units.mm10, units.dpi)]
    /\ pc' = {"mm", "px"}
    /\ UNCHANGED <<morphVars, segVars, flipVars, detect, scaling, bridge, run, norm, panel>>

\* back = px_to_mm(px, dpi)
ToMm ==
    /\ pc = {"mm", "px"}
    /\ units' = [units EXCEPT !.back = px_to_mm(units.px, units.dpi)]
    /\ pc' = {"mm", "px", "back"}
    /\ UNCHANGED <<morphVars, segVars, flipVars, detect, scaling, bridge, run, norm, panel>>

NextUnits == ToPx \/ ToMm

SpecUnits == InitUnits /\ [][NextUnits]_vars

Abs(n) == IF n < 0 THEN -n ELSE n

\* C13: for dpi in {150, 300, 600} and mm in {0, 1, 10, 210, 297} (and the
\* other lengths and resolutions tried), mm_to_px is round(mm * dpi / 25.4)
\* and px_to_mm(mm_to_px(mm, dpi), dpi) is within 25.4 / dpi (one pixel) of mm.
C13_UnitsRoundTrip ==
    /\ "px" \in pc =>
          2 * Abs(MM10_PER_INCH * units.px - units.mm10 * units.dpi) <= MM10_PER_INCH
    /\ "back" \in pc =>
          Abs(10 * units.back.num - units.mm10 * units.back.den) * units.dpi
              <= MM10_PER_INCH * units.back.den

\* Witness for C13: 210 mm at 300 dpi is 2480 px, which is not 210 mm again.
C13_Witness ==
    /\ "back" \in pc
    /\ units.mm10 = 2100
    /\ units.dpi = 300
    /\ units.px = 2480
    /\ 10 * units.back.num # units.mm10 * units.back.den

(* ------------------- bridge.enforce specification ---------------------- *)

\* cfg["min_bridge_mm"] runs over 0.0 .. MaxBridgeTenths / 10 mm.
MaxBridgeTenths == 4

\* Distance between two pixels as cv2.distanceTransform(DIST_L2, 5) counts
\* it, in 1/10000 pixel: steps cost 1 along an axis, 1.4 along a diagonal and
\* 2.1969 for a knight's move.
ChamferCost(p, q) ==
    LET dx == IF p[1] >= q[1] THEN p[1] - q[1] ELSE q[1] - p[1]
        dy == IF p[2] >= q[2] THEN p[2] - q[2] ELSE q[2] - p[2]
        m == Max2(dx, dy)
        n == Min2(dx, dy)
    IN  IF m >= 2 * n THEN n * 21969 + (m - 2 * n) * 10000
        ELSE (m - n) * 21969 + (2 * n - m) * 14000

\* dist = cv2.distanceTransform(binary, cv2.DIST_L2, 5) at pixel p: 0 on the
\* background, the distance to the nearest background pixel on the
\* foreground, and a huge value when the image has no background pixel.
DistanceTransform(binary, canvas, p) ==
    IF p \notin binary THEN 0
    ELSE IF canvas \ binary = {} THEN 2147483647
    ELSE SetMin({ChamferCost(p, q) : q \in canvas \ binary})

\* cv2.getStructuringElement(cv2.MORPH_ELLIPSE, (2r+1, 2r+1)) as offsets
\* from the anchor: row dy spans |dx| <= round(sqrt(r^2 - dy^2)).
EllipseKernel(r) ==
    {k \in (-r .. r) \X (-r .. r) :
        LET dx == IF k[1] < 0 THEN -k[1] ELSE k[1]
        IN  dx <= RoundRoot(r * r - k[2] * k[2], 1)}

\* cv2.dilate(S, kernel, iterations=1): pixels with a kernel offset in S.
Dilate(S, kernel, canvas) ==
    {p \in canvas : \E k \in kernel : <<p[1] + k[1], p[2] + k[2]>> \in S}

\* min_bridge_px = max(1, mm_to_px(min_bridge_mm, dpi))
MinBridgePx(cfg) == Max2(1, mm_to_px(cfg.min_bridge_mm10, cfg.dpi))

\* radius = max(1, int(round(min_bridge_px / 2)))
BridgeRadius(cfg) == Max2(1, RoundDiv(MinBridgePx(cfg), 2))

\* thin_threshold = max(1.0, min_bridge_px / 2.0), in 1/10000 pixel.
ThinThreshold(cfg) == Max2(10000, MinBridgePx(cfg) * 5000)

\* Mutant of Reinforce: the dilation is not applied inside the region of
\* interest.
Mut_reinforce_keeps_binary(binary, thin_regions, kernel, canvas) == binary

\* Mutant of Reinforce: outside the region of interest the mask is cleared
\* instead of kept.
Mut_reinforce_clears_outside(binary, thin_regions, kernel, canvas) ==
    Dilate(binary, kernel, canvas) \cap Dilate(thin_regions, kernel, canvas)

\* reinforced = np.where(region_of_interest > 0, dilated, binary)
Reinforce(binary, thin_regions, kernel, canvas) ==
    LET dilated == Dilate(binary, kernel, canvas)
        region_of_interest == Dilate(thin_regions, kernel, canvas)
    IN  {p \in canvas : IF p \in region_of_interest THEN p \in dilated ELSE p \in binary}

\* enforce(mask_png, cfg, work): the updated call record. A missing mask file
\* is the image NoImage.
enforce(b) ==
    IF b.mask = NoImage
    THEN [b EXCEPT !.error = "FileNotFoundError"]
    ELSE
    LET canvas == DOMAIN b.mask.px
        binary == {p \in canvas : b.mask.px[p] > 127}
        thin_regions == {p \in canvas :
                            DistanceTransform(binary, canvas, p) < ThinThreshold(b.cfg)}
    IN  IF thin_regions = {}
        THEN [b EXCEPT !.returned = "mask.png"]
        ELSE [b EXCEPT !.out = MaskOf(Reinforce(binary, thin_regions,
                                                EllipseKernel(BridgeRadius(b.cfg)), canvas),
                                      b.mask.w, b.mask.h),
                       !.files = {"mask_bridge.png"},
                       !.returned = "mask_bridge.png"]

\* Masks tried: a filled rectangle (or none) plus at most one more pixel, and
\* NoImage for a mask file that cannot be read.
BridgeCanvas == Canvas(W + 1, H + 1)

Rectangles ==
    {{p \in BridgeCanvas : c[1] <= p[1] /\ p[1] <= c[2] /\ d[1] <= p[2] /\ p[2] <= d[2]} :
        c \in (0 .. W) \X (0 .. W), d \in (0 .. H) \X (0 .. H)}

BridgeMasks ==
    {MaskOf(R \cup E, W + 1, H + 1) : R \in Rectangles, E \in SubsetsUpTo(BridgeCanvas, 1)}
        \cup {NoImage}

\* Configurations: at 254 dpi a tenth of a millimetre is one pixel; 1.2 mm at
\* 300 dpi is the 14-pixel bridge width.
BridgeConfigs ==
    [dpi : {254}, min_bridge_mm10 : 0 .. MaxBridgeTenths]
        \cup {[dpi |-> 300, min_bridge_mm10 |-> 12]}

InitBridge ==
    /\ pc = {"mask"}
    /\ IdleMorph
    /\ IdleSeg
    /\ IdleFlip
    /\ scaling = Idle
    /\ units = Idle
    /\ \E m \in BridgeMasks, c \in BridgeConfigs :
          bridge = [mask |-> m, cfg |-> c, out |-> NoImage, files |-> {},
                    returned |-> "", error |-> ""]
    /\ run = Idle
    /\ norm = Idle
    /\ panel = Idle
    /\ detect = Idle

\* mask_fixed = bridge.enforce(mask_png, cfg, work)
Enforce ==
    /\ pc = {"mask"}
    /\ bridge' = enforce(bridge)
    /\ pc' = {"mask", "enforced"}
    /\ UNCHANGED <<morphVars, segVars, flipVars, detect, scaling, units, run, norm, panel>>

NextBridge == Enforce

SpecBridge == InitBridge /\ [][NextBridge]_vars

\* The mask that the returned path holds after enforce.
BridgeOutput == IF bridge.returned = "mask.png" THEN bridge.mask ELSE bridge.out

\* Squared Euclidean distance of two pixels.
Dist2(p, q) == (p[1] - q[1]) * (p[1] - q[1]) + (p[2] - q[2]) * (p[2] - q[2])

\* Foreground pixels nearer to some background pixel than half the minimum
\* bridge width (Euclidean distance).
ThinForeground ==
    {p \in On(bridge.mask) :
        \E q \in DOMAIN bridge.mask.px \ On(bridge.mask) :
            4 * Dist2(p, q) < MinBridgePx(bridge.cfg) * MinBridgePx(bridge.cfg)}

\* Square foreground blocks with a side of the minimum bridge width.
WideBlocks ==
    LET n == MinBridgePx(bridge.cfg)
        Block(c) == {<<c[1] + i, c[2] + j>> : i \in 0 .. n - 1, j \in 0 .. n - 1}
    IN  {Block(c) : c \in {d \in DOMAIN bridge.mask.px : Block(d) \subseteq On(bridge.mask)}}

\* C14: a foreground region at least min_bridge_px wide and farther than the
\* dilation radius from every too-thin foreground pixel comes out unchanged,
\* the pixels on and just outside its boundary included.
C14_OnlyFragileAreasChange ==
    ("enforced" \in pc /\ bridge.error = "") =>
        \A S \in WideBlocks :
            (\A s \in S, t \in ThinForeground :
                 Dist2(s, t) > BridgeRadius(bridge.cfg) * BridgeRadius(bridge.cfg))
            => \A s \in S : \A p \in ({s} \cup Neighbours8(s)) \cap DOMAIN bridge.mask.px :
                   BridgeOutput.px[p] = bridge.mask.px[p]

\* C15: when no foreground pixel is nearer to the background than half the
\* minimum bridge width, enforce returns the input path and writes nothing,
\* also when the mask has background pixels.
C15_NoOpWhenNothingThin ==
    ("enforced" \in pc /\ bridge.error = "" /\ ThinForeground = {}) =>
        /\ bridge.returned = "mask.png"
        /\ bridge.files = {}

\* C16: around every too-thin foreground pixel the whole disk of the dilation
\* radius is foreground in the output, which is written to mask_bridge.png.
C16_ThinBridgesThickened ==
    ("enforced" \in pc /\ bridge.error = "" /\ ThinForeground # {}) =>
        /\ bridge.returned = "mask_bridge.png"
        /\ bridge.files = {"mask_bridge.png"}
        /\ \A t \in ThinForeground : \A q \in DOMAIN bridge.mask.px :
              Dist2(t, q) <= BridgeRadius(bridge.cfg) * BridgeRadius(bridge.cfg)
                  => bridge.out.px[q] # 0

\* Witness for C16: a bridge one pixel wide across the canvas at 1.2 mm and
\* 300 dpi (14 px): the radius is 7 and the bridge was thickened.
C16_Witness ==
    /\ "enforced" \in pc
    /\ bridge.cfg = [dpi |-> 300, min_bridge_mm10 |-> 12]
    /\ MinBridgePx(bridge.cfg) = 14
    /\ BridgeRadius(bridge.cfg) >= 7
    /\ On(bridge.mask) = {p \in DOMAIN bridge.mask.px : p[2] = 1}
    /\ ThinForeground = On(bridge.mask)
    /\ On(bridge.out) = DOMAIN bridge.mask.px

-----------------------------------------------------------------------------
\* A whole run, stage by stage: the legacy script (main) and the alternate
\* pipeline (run_pipeline).  The run record holds the inputs, the position
\* (at), the stages entered so far (done), the files written, the tiles emitted
\* and the exception that ended the run.

MaxCols == 2
MaxRows == 2

\* A4 portrait in tenths of a millimetre.
A4_MM10 == <<2100, 2970>>

Mut_raise_reaches_pack(r, stage, err) ==
    [r EXCEPT !.done = Append(@, stage), !.error = err, !.at = "pack"]

\* The stage raises: the run ends there.
Raise(r, stage, err) ==
    [r EXCEPT !.done = Append(@, stage), !.error = err, !.at = "failed"]

\* The stage returns after writing the given files.
Return(r, stage, next, written) ==
    [r EXCEPT !.done = Append(@, stage), !.files = @ \cup written, !.at = next]

\* PanelLayout.tile_size_px: <<>> stands for the ValueError.
tile_size_px(r) ==
    LET margin_px == mm_to_px(r.margin10, r.dpi)
        inner_w == mm_to_px(A4_MM10[1], r.dpi) - 2 * margin_px
        inner_h == mm_to_px(A4_MM10[2], r.dpi) - 2 * margin_px
    IN  IF inner_w <= 0 \/ inner_h <= 0 THEN <<>> ELSE <<inner_w, inner_h>>

\* slice_panel_into_tiles
slice_panel_into_tiles(r) ==
    IF tile_size_px(r) = <<>>
    THEN Raise(r, "slice", "ValueError")
    ELSE [Return(r, "slice", "export", {}) EXCEPT !.tiles =
             {[col |-> c, row |-> k, x |-> c * tile_size_px(r)[1], y |-> k * tile_size_px(r)[2],
               w |-> tile_size_px(r)[1], h |-> tile_size_px(r)[2]] :
                 c \in 0 .. r.cols - 1, k \in 0 .. r.rows - 1}]

Mut_mask_without_check(r) == Return(r, "mask", "bridge", {"mask.png"})

\* mask.build_mask: cv2.imread gives None for a file it cannot decode.
build_mask(r) ==
    IF r.source # "ok"
    THEN Raise(r, "mask", "FileNotFoundError")
    ELSE Return(r, "mask", "bridge", {"mask.png"})

\* str.format with {:d}, as a sequence of characters.
DigitChar == <<"0", "1", "2", "3", "4", "5", "6", "7", "8", "9">>

RECURSIVE Decimal(_)
Decimal(n) ==
    IF n < 10 THEN <<DigitChar[n + 1]>> ELSE Append(Decimal(n \div 10), DigitChar[(n % 10) + 1])

\* str.format with {:02d}
Pad2(n) == IF n < 10 THEN <<"0">> \o Decimal(n) ELSE Decimal(n)

\* tile.to_tiles: the name of the file of the tile at (row, col).
tile_path(row, col) == <<"tile_">> \o Pad2(row + 1) \o <<"_">> \o Pad2(col + 1) \o <<".svg">>

\* tile.to_tiles: the nested loops, as the sequence of <<row, col>> visited.
RECURSIVE RowMajor(_, _, _)
RowMajor(row, rows, cols) ==
    IF row >= rows THEN <<>>
    ELSE [c \in 1 .. cols |-> <<row, c - 1>>] \o RowMajor(row + 1, rows, cols)

Mut_step_is_tile_size(r) ==
    LET margins_px == mm_to_px(r.margin10, r.dpi)
        overlap_px == mm_to_px(r.overlap10, r.dpi)
        tile_w_vb == mm_to_px(A4_MM10[1], r.dpi) - 2 * margins_px + 2 * overlap_px
        tile_h_vb == mm_to_px(A4_MM10[2], r.dpi) - 2 * margins_px + 2 * overlap_px
    IN  [tile_w_vb |-> tile_w_vb, tile_h_vb |-> tile_h_vb,
         step_x |-> tile_w_vb, step_y |-> tile_h_vb]

\* tile.to_tiles: the size of a tile's viewBox and the step between tiles.
tile_geometry(r) ==
    LET margins_px == mm_to_px(r.margin10, r.dpi)
        overlap_px == mm_to_px(r.overlap10, r.dpi)
        tile_w_vb == mm_to_px(A4_MM10[1], r.dpi) - 2 * margins_px + 2 * overlap_px
        tile_h_vb == mm_to_px(A4_MM10[2], r.dpi) - 2 * margins_px + 2 * overlap_px
    IN  [tile_w_vb |-> tile_w_vb, tile_h_vb |-> tile_h_vb,
         step_x |-> tile_w_vb - 2 * overlap_px, step_y |-> tile_h_vb - 2 * overlap_px]

\* tile.to_tiles: each tile carries its place in the returned list (index),
\* the page number printed on it, its file name and its viewBox (x, y, w, h).
to_tiles(r) ==
    LET g == tile_geometry(r)
        visited == RowMajor(0, r.rows, r.cols)
    IN  [Return(r, "tile", "render_pdf", {"tiles/svg"}) EXCEPT !.tiles =
            {[index |-> i, row |-> visited[i][1], col |-> visited[i][2],
              x |-> visited[i][2] * g.step_x, y |-> visited[i][1] * g.step_y,
              w |-> g.tile_w_vb, h |-> g.tile_h_vb,
              page |-> visited[i][1] * r.cols + visited[i][2] + 1,
              file |-> tile_path(visited[i][1], visited[i][2])] : i \in DOMAIN visited}]

RunSources == {"ok", "missing", "corrupt", "denied"}

\* Margins in tenths of a millimetre: 10, 100, 105, 110 and 150 mm.
RunMargins == {100, 1000, 1050, 1100, 1500}

RunInputs ==
    [path : {"legacy"}, source : RunSources, uniform : {FALSE}, dpi : {72, 300},
     margin10 : RunMargins, overlap10 : {0}, cols : 1 .. MaxCols, rows : 1 .. MaxRows,
     format : {"pptx", "pdf", "both"}, debug_panel : BOOLEAN]
      \cup
    [path : {"pipeline"}, source : RunSources, uniform : BOOLEAN, dpi : {72, 300},
     margin10 : RunMargins, overlap10 : {0, 50}, cols : 1 .. MaxCols, rows : 1 .. MaxRows,
     format : {"both"}, debug_panel : {FALSE}]

InitRun ==
    /\ pc = {"run"}
    /\ IdleMorph
    /\ IdleSeg
    /\ IdleFlip
    /\ scaling = Idle
    /\ units = Idle
    /\ bridge = Idle
    /\ \E i \in RunInputs :
          run = [path |-> i.path, source |-> i.source, uniform |-> i.uniform, dpi |-> i.dpi,
                 margin10 |-> i.margin10, overlap10 |-> i.overlap10, cols |-> i.cols,
                 rows |-> i.rows, format |-> i.format, debug_panel |-> i.debug_panel,
                 at |-> IF i.path = "legacy" THEN "input" ELSE "dirs",
                 done |-> <<>>, files |-> {}, tiles |-> {}, error |-> ""]
    /\ norm = Idle
    /\ panel = Idle
    /\ detect = Idle

RunFrame == UNCHANGED <<pc, morphVars, segVars, flipVars, detect, scaling, units, bridge, norm, panel>>

\* main: the input check.
MainInput ==
    /\ run.at = "input"
    /\ run' = IF run.source = "missing"
              THEN Raise(run, "input", "SystemExit")
              ELSE Return(run, "input", "load", {})
    /\ RunFrame

\* main: Image.open(inp).convert("RGB") and the normalisation.
MainLoad ==
    /\ run.at = "load"
    /\ run' = CASE run.source = "corrupt" -> Raise(run, "load", "UnidentifiedImageError")
                [] run.source = "denied" -> Raise(run, "load", "PermissionError")
                [] OTHER -> Return(run, "load", "panel", {})
    /\ RunFrame

\* main: build_white_on_gray_panel, which reads layout.panel_size_px first.
MainPanel ==
    /\ run.at = "panel"
    /\ run' = IF tile_size_px(run) = <<>>
              THEN Raise(run, "panel", "ValueError")
              ELSE Return(run, "panel", "save", {})
    /\ RunFrame

\* main: the original-size PNG and the optional debug panel.
MainSave ==
    /\ run.at = "save"
    /\ run' = Return(run, "save", "slice",
                     {"original.png"} \cup (IF run.debug_panel THEN {"panel.png"} ELSE {}))
    /\ RunFrame

\* main: tiles = slice_panel_into_tiles(panel, layout)
MainSlice ==
    /\ run.at = "slice"
    /\ run' = slice_panel_into_tiles(run)
    /\ RunFrame

\* main: the PDF and PPTX exports.
MainExport ==
    /\ run.at = "export"
    /\ run' = Return(run, "export", "done",
                     (IF run.format \in {"pdf", "both"} THEN {"pages.pdf"} ELSE {})
                         \cup (IF run.format \in {"pptx", "both"} THEN {"pages.pptx"} ELSE {}))
    /\ RunFrame

\* run_pipeline: the directories work, out and work/source_copy.
StageDirs ==
    /\ run.at = "dirs"
    /\ run' = Return(run, "dirs", "ingest", {})
    /\ RunFrame

\* ingest.copy_sources: copy2 opens the source first.
StageIngest ==
    /\ run.at = "ingest"
    /\ run' = CASE run.source = "missing" -> Raise(run, "ingest", "FileNotFoundError")
                [] run.source = "denied" -> Raise(run, "ingest", "PermissionError")
                [] OTHER -> Return(run, "ingest", "mask", {"source_copy"})
    /\ RunFrame

\* mask.build_mask
StageMask ==
    /\ run.at = "mask"
    /\ run' = build_mask(run)
    /\ RunFrame

\* bridge.enforce on the mask of the run: an image of one tone gives a mask
\* without background, the only mask enforce leaves alone.
StageBridge ==
    /\ run.at = "bridge"
    /\ run' = Return(run, "bridge", "vectorize",
                     IF run.uniform THEN {} ELSE {"mask_bridge.png"})
    /\ RunFrame

\* vectorize.to_svg
StageVectorize ==
    /\ run.at = "vectorize"
    /\ run' = Return(run, "vectorize", "compose", {"vector.svg"})
    /\ RunFrame

\* compose.build_scene
StageCompose ==
    /\ run.at = "compose"
    /\ run' = Return(run, "compose", "tile", {})
    /\ RunFrame

\* tile.to_tiles
StageTile ==
    /\ run.at = "tile"
    /\ run' = to_tiles(run)
    /\ RunFrame

\* render_pdf.build: what cairosvg does with a tile whose viewBox has no area
\* is not fixed by this code, so it either renders or raises.
StageRenderPdf ==
    /\ run.at = "render_pdf"
    /\ \E renders \in (IF \E t \in run.tiles : t.w <= 0 \/ t.h <= 0
                       THEN BOOLEAN ELSE {TRUE}) :
          run' = IF renders
                 THEN Return(run, "render_pdf", "render_pptx",
                             {"tiles/pdf", "pages.pdf", "cover.pdf", "instructions.pdf"})
                 ELSE Raise(run, "render_pdf", "RenderError")
    /\ RunFrame

\* render_pptx.build
StageRenderPptx ==
    /\ run.at = "render_pptx"
    /\ run' = Return(run, "render_pptx", "preview", {"pages.pptx"})
    /\ RunFrame

\* preview.make
StagePreview ==
    /\ run.at = "preview"
    /\ run' = Return(run, "preview", "qa", {"preview.jpg"})
    /\ RunFrame

\* qa.run
StageQa ==
    /\ run.at = "qa"
    /\ run' = Return(run, "qa", "pack", {"QA.json"})
    /\ RunFrame

\* pack.make_zip
StagePack ==
    /\ run.at = "pack"
    /\ run' = Return(run, "pack", "done", {"zip"})
    /\ RunFrame

NextRun ==
    \/ MainInput
    \/ MainLoad
    \/ MainPanel
    \/ MainSave
    \/ MainSlice
    \/ MainExport
    \/ StageDirs
    \/ StageIngest
    \/ StageMask
    \/ StageBridge
    \/ StageVectorize
    \/ StageCompose
    \/ StageTile
    \/ StageRenderPdf
    \/ StageRenderPptx
    \/ StagePreview
    \/ StageQa
    \/ StagePack

SpecRun == InitRun /\ [][NextRun]_vars

\* Stages entered so far.
Entered == {run.done[i] : i \in DOMAIN run.done}

\* The margins leave no inner width or height on an A4 page.
DegenerateGeometry ==
    \/ mm_to_px(A4_MM10[1], run.dpi) - 2 * mm_to_px(run.margin10, run.dpi) <= 0
    \/ mm_to_px(A4_MM10[2], run.dpi) - 2 * mm_to_px(run.margin10, run.dpi) <= 0

\* Files of the tiling and export work.
ExportFiles ==
    {"original.png", "panel.png", "tiles/svg", "tiles/pdf", "pages.pdf", "cover.pdf",
     "instructions.pdf", "pages.pptx", "preview.jpg", "QA.json", "zip"}

\* C17: with margins that leave no inner width or height, both paths fail
\* before a tile is produced or an export file is written, and no tile with a
\* non-positive dimension is ever emitted.
C17_DegenerateGeometryRejected ==
    /\ \A t \in run.tiles : t.w > 0 /\ t.h > 0
    /\ DegenerateGeometry =>
          /\ run.tiles = {}
          /\ run.files \cap ExportFiles = {}
          /\ run.at # "done"
          /\ Entered \cap {"slice", "tile"} # {} => run.at = "failed"

\* C18: a missing or unreadable source ends the run with an exception: main
\* writes no file at all, and run_pipeline writes no mask.png and enters no
\* stage after build_mask.
C18_BadSourceAborts ==
    run.source # "ok" =>
        /\ run.at # "done"
        /\ run.error # "" <=> run.at = "failed"
        /\ run.path = "legacy" =>
              /\ run.files = {}
              /\ run.tiles = {}
              /\ Entered \subseteq {"input", "load"}
              /\ "load" \in Entered => run.at = "failed"
        /\ run.path = "pipeline" =>
              /\ "mask.png" \notin run.files
              /\ run.files \subseteq {"source_copy"}
              /\ Entered \subseteq {"dirs", "ingest", "mask"}
              /\ "mask" \in Entered => run.at = "failed"

\* Witness for C18: the pipeline stopped in build_mask on a file that was
\* copied but cannot be decoded.
C18_Witness ==
    /\ run.path = "pipeline"
    /\ run.source = "corrupt"
    /\ run.done = <<"dirs", "ingest", "mask">>
    /\ run.at = "failed"
    /\ run.error = "FileNotFoundError"
    /\ run.files = {"source_copy"}

\* The stages of run_pipeline in the order of its statements.
PipelineOrder ==
    <<"dirs", "ingest", "mask", "bridge", "vectorize", "compose", "tile", "render_pdf",
      "render_pptx", "preview", "qa", "pack">>

C24_TilesRowMajorWithOverlap ==
    (run.path = "pipeline" /\ "tile" \in Entered) =>
        LET n == run.cols * run.rows
            overlap_px == mm_to_px(run.overlap10, run.dpi)
            step_x == mm_to_px(A4_MM10[1], run.dpi) - 2 * mm_to_px(run.margin10, run.dpi)
            step_y == mm_to_px(A4_MM10[2], run.dpi) - 2 * mm_to_px(run.margin10, run.dpi)
        IN  /\ Cardinality(run.tiles) = n
            /\ {t.index : t \in run.tiles} = 1 .. n
            /\ {t.page : t \in run.tiles} = 1 .. n
            /\ {<<t.row, t.col>> : t \in run.tiles} = (0 .. run.rows - 1) \X (0 .. run.cols - 1)
            /\ \A t \in run.tiles :
                  /\ t.index = t.row * run.cols + t.col + 1
                  /\ t.page = t.index
                  /\ t.x = t.col * step_x
                  /\ t.y = t.row * step_y
            /\ \A t, u \in run.tiles :
                  /\ t # u => (t.file # u.file /\ t.page # u.page)
                  /\ (u.row = t.row /\ u.col = t.col + 1) =>
                        /\ t.x + t.w - u.x = 2 * overlap_px
                        /\ overlap_px >= 0 => u.x <= t.x + t.w
                  /\ (u.col = t.col /\ u.row = t.row + 1) =>
                        /\ t.y + t.h - u.y = 2 * overlap_px
                        /\ overlap_px >= 0 => u.y <= t.y + t.h

\* Witness for C24: a 2 x 2 grid with an overlap was tiled on a page with room
\* inside the margins.
C24_Witness ==
    /\ run.path = "pipeline"
    /\ "tile" \in Entered
    /\ run.cols >= 2
    /\ run.rows >= 2
    /\ run.overlap10 > 0
    /\ ~DegenerateGeometry
    /\ Cardinality(run.tiles) = run.cols * run.rows
    /\ \E t \in run.tiles : t.page = run.cols + 1 /\ t.row = 1 /\ t.col = 0 /\ t.y > 0

-----------------------------------------------------------------------------
\* normalize_source_image.  Factors are exact fractions [num, den]; the
\* upscale factor is given in quarters and the blur radius in hundredths.

Frac(n, d) == [num |-> n, den |-> d]

FracLess(a, b) == a.num * b.den < b.num * a.den

FracEq(a, b) == a.num * b.den = b.num * a.den

FracMax(a, b) == IF FracLess(a, b) THEN b ELSE a

\* max(1, int(round(n * upscale)))
TargetSize(n, upscale) == Max2(1, RoundDiv(n * upscale.num, upscale.den))

normalize_source_image(img, norm_params) ==
    LET unchanged == [size |-> <<img.w, img.h>>, working |-> <<img.w, img.h>>,
                      upscale |-> Frac(1, 1), applied_blur |-> Frac(0, 1)]
        upscale0 == FracMax(Frac(1, 1), Frac(norm_params.upscale4, 4))
        dpi == img.dpi
        with_dpi == dpi # <<>> /\ norm_params.target_dpi > 0
        src_dpi == Max2(Max2(dpi[1], dpi[2]), 1)
        upscale == IF with_dpi
                   THEN FracMax(upscale0, Frac(norm_params.target_dpi, src_dpi))
                   ELSE upscale0
        target_w == TargetSize(img.w, upscale)
        target_h == TargetSize(img.h, upscale)
        blur_radius ==
            IF with_dpi /\ dpi[1] >= norm_params.target_dpi /\ dpi[2] >= norm_params.target_dpi
            THEN Frac(0, 1)
            ELSE Frac(norm_params.blur100 * upscale.den, 100 * upscale.num)
        applied_blur ==
            IF norm_params.blur100 > 0 /\ ~FracLess(blur_radius, Frac(5, 100))
            THEN blur_radius
            ELSE Frac(0, 1)
    IN  IF norm_params.upscale4 <= 4 /\ norm_params.blur100 <= 0 THEN unchanged
        ELSE IF img.w = 0 \/ img.h = 0 THEN unchanged
        ELSE [size |-> <<img.w, img.h>>, working |-> <<target_w, target_h>>,
              upscale |-> upscale, applied_blur |-> applied_blur]

\* Source images: size and DPI metadata (<<>>: none).
NormImages ==
    [w : {0, 3, 4}, h : {0, 3}, dpi : {<<>>, <<72, 72>>, <<150, 150>>, <<300, 300>>, <<72, 96>>}]

\* main builds the parameters with target_dpi >= 0, upscale_factor >= 1.0 and
\* blur_radius >= 0.
NormParams == [target_dpi : {0, 150, 300}, upscale4 : {4, 6, 8}, blur100 : {0, 4, 120}]

InitNorm ==
    /\ pc = {"source"}
    /\ IdleMorph
    /\ IdleSeg
    /\ IdleFlip
    /\ scaling = Idle
    /\ units = Idle
    /\ bridge = Idle
    /\ run = Idle
    /\ \E i \in NormImages, p \in NormParams : norm = [img |-> i, params |-> p, result |-> <<>>]
    /\ panel = Idle
    /\ detect = Idle

\* src, norm_scale, norm_blur = normalize_source_image(src_loaded, norm_params)
Normalize ==
    /\ pc = {"source"}
    /\ norm' = [norm EXCEPT !.result = normalize_source_image(norm.img, norm.params)]
    /\ pc' = {"source", "normalized"}
    /\ UNCHANGED <<morphVars, segVars, flipVars, detect, scaling, units, bridge, run, panel>>

NextNorm == Normalize

SpecNorm == InitNorm /\ [][NextNorm]_vars

\* The factor the image should be scaled by: max(min_upscale, target_dpi /
\* source_dpi) with DPI metadata and a positive target, min_upscale otherwise.
EffectiveUpscale ==
    IF norm.img.dpi # <<>> /\ norm.params.target_dpi > 0
    THEN FracMax(Frac(norm.params.upscale4, 4),
                 Frac(norm.params.target_dpi, Max2(norm.img.dpi[1], norm.img.dpi[2])))
    ELSE Frac(norm.params.upscale4, 4)

\* C19: the reported and used upscale factor is max(min_upscale, target_dpi /
\* source_dpi) when the image has DPI metadata and target_dpi > 0, also with
\* min_upscale = 1.0 and no blur, and min_upscale otherwise; an image with a
\* zero dimension comes back unchanged.
C19_EffectiveUpscale ==
    "normalized" \in pc =>
        IF norm.img.w = 0 \/ norm.img.h = 0
        THEN /\ norm.result.size = <<norm.img.w, norm.img.h>>
             /\ norm.result.working = <<norm.img.w, norm.img.h>>
        ELSE /\ FracEq(norm.result.upscale, EffectiveUpscale)
             /\ norm.result.working = <<TargetSize(norm.img.w, EffectiveUpscale),
                                        TargetSize(norm.img.h, EffectiveUpscale)>>

-----------------------------------------------------------------------------
\* build_white_on_gray_panel: the preview segmentation, the flip decision and
\* the base masks.  The panel record keeps the processed grayscale the
\* function starts from, the images the segmenter was called on (segmented),
\* and the flag the function returns.

Mut_never_inverted(processed_gray, flip) == processed_gray

\* processed_gray after the flip branch.
BaseGray(processed_gray, flip) ==
    IF flip THEN Invert(processed_gray) ELSE processed_gray

\* Processed grayscale inputs: at most one pixel of the other tone.
PanelGrays ==
    {Tone(S, t[1], t[2], W, H) : S \in SubsetsUpTo(Canvas(W, H), 1),
                                 t \in {<<100, 230>>, <<230, 100>>}}

InitPanel ==
    /\ pc = {"gray"}
    /\ IdleMorph
    /\ IdleSeg
    /\ IdleFlip
    /\ scaling = Idle
    /\ units = Idle
    /\ bridge = Idle
    /\ run = Idle
    /\ norm = Idle
    /\ detect = Idle
    /\ \E g \in PanelGrays, m \in {"auto", "keep", "flip"}, f \in BOOLEAN :
          panel = [gray |-> g,
                   bw_params |-> [threshold_bg |-> 200, threshold_detail |-> 140,
                                  dilate_px |-> 0, detail_join_px |-> 0],
                   invert_mode |-> m, floodfill |-> f,
                   preview_masks |-> NoMasks, should_flip |-> FALSE,
                   processed_gray |-> g, base_masks |-> NoMasks,
                   segmented |-> <<>>, returned |-> FALSE]

\* build_white_on_gray_panel: preview masks, decision, flip branch, and the
\* flag returned at the end.
BuildPanel ==
    /\ pc = {"gray"}
    /\ \E preview_masks \in {build_masks_from_gray(panel.gray, panel.bw_params,
                                                   panel.floodfill)} :
       \E flip \in {_should_flip_auto(panel.gray, preview_masks, panel.invert_mode,
                                      DefaultTolerance)} :
       \E base_gray \in {BaseGray(panel.gray, flip)} :
       \E base_masks \in {IF flip
                          THEN build_masks_from_gray(base_gray, panel.bw_params,
                                                     panel.floodfill)
                          ELSE preview_masks} :
          panel' = [panel EXCEPT !.preview_masks = preview_masks,
                                 !.should_flip = flip,
                                 !.processed_gray = base_gray,
                                 !.base_masks = base_masks,
                                 !.segmented = IF flip THEN <<panel.gray, base_gray>>
                                               ELSE <<panel.gray>>,
                                 !.returned = flip]
    /\ pc' = {"gray", "panel"}
    /\ UNCHANGED <<morphVars, segVars, flipVars, detect, scaling, units, bridge, run, norm>>

NextPanel == BuildPanel

SpecPanel == InitPanel /\ [][NextPanel]_vars

\* The grayscale with every level g replaced by 255 - g.
Negative(img) == [w |-> img.w, h |-> img.h, px |-> [q \in DOMAIN img.px |-> 255 - img.px[q]]]

\* C20: the segmenter runs a second time, on the inverted processed grayscale,
\* exactly when the flip decision is true; otherwise the base masks are the
\* preview masks and the grayscale is not inverted; the returned flag is the
\* decision.
C20_RerunIffFlip ==
    "panel" \in pc =>
        LET decision == _should_flip_auto(panel.gray, panel.preview_masks,
                                          panel.invert_mode, DefaultTolerance)
        IN  /\ panel.preview_masks =
                   build_masks_from_gray(panel.gray, panel.bw_params, panel.floodfill)
            /\ panel.returned = decision
            /\ panel.should_flip = decision
            /\ decision =>
                  /\ panel.segmented = <<panel.gray, Negative(panel.gray)>>
                  /\ panel.processed_gray = Negative(panel.gray)
                  /\ panel.base_masks =
                         build_masks_from_gray(Negative(panel.gray), panel.bw_params,
                                               panel.floodfill)
            /\ ~decision =>
                  /\ panel.segmented = <<panel.gray>>
                  /\ panel.processed_gray = panel.gray
                  /\ panel.base_masks = panel.preview_masks

\* Witness for C20: in auto mode the decision was to flip and the second
\* segmentation gave other masks than the preview.
C20_Witness ==
    /\ "panel" \in pc
    /\ panel.invert_mode = "auto"
    /\ panel.returned
    /\ Len(panel.segmented) = 2
    /\ panel.base_masks # panel.preview_masks

-----------------------------------------------------------------------------
\* detect_relative_dark_regions called on its own: a grayscale, a paper
\* candidate and the two thresholds.

\* Grayscale whose level changes by step from one column to the next.
Ramp(base, step, w, h) == [w |-> w, h |-> h, px |-> [p \in Canvas(w, h) |-> base + step * p[1]]]

\* Soft and steep ramps, flat images, and a flat image with one dark pixel.
DetectGrays ==
    {Ramp(b, s, W, H) : b \in {20, 100}, s \in {0, 8, 20, 40}}
        \cup {Tone(S, 100, 190, W, H) : S \in SubsetsUpTo(Canvas(W, H), 1)}

\* Paper candidates: a rectangle of the canvas, or nothing.
DetectPapers ==
    {MaskOf({p \in Canvas(W, H) : c[1] <= p[1] /\ p[1] <= c[2] /\ d[1] <= p[2] /\ p[2] <= d[2]},
            W, H) : c \in (0 .. W - 1) \X (0 .. W - 1), d \in (0 .. H - 1) \X (0 .. H - 1)}

InitDetect ==
    /\ pc = {"candidate"}
    /\ IdleMorph
    /\ IdleSeg
    /\ IdleFlip
    /\ scaling = Idle
    /\ units = Idle
    /\ bridge = Idle
    /\ run = Idle
    /\ norm = Idle
    /\ panel = Idle
    /\ \E g \in DetectGrays, c \in DetectPapers, t \in {140, 190}, f \in BOOLEAN :
          detect = [gray_processed |-> g, paper_candidate |-> c, t_bg |-> 200,
                    t_detail |-> t, floodfill |-> f, result |-> NoImage]

\* holes_rel = detect_relative_dark_regions(gray_processed, paper_candidate, t_bg, t_detail)
Detect ==
    /\ pc = {"candidate"}
    /\ \E rel_closed \in {detect_relative_dark_regions(detect.gray_processed,
                              detect.paper_candidate, detect.t_bg, detect.t_detail,
                              detect.floodfill)} :
          detect' = [detect EXCEPT !.result = rel_closed]
    /\ pc' = {"candidate", "detected"}
    /\ UNCHANGED <<morphVars, segVars, flipVars, scaling, units, bridge, run, norm, panel>>

NextDetect == Detect

SpecDetect == InitDetect /\ [][NextDetect]_vars

\* Pixels of the paper candidate whose edge magnitude reaches the threshold
\* max(20, min(96, 2 * (t_bg - t_detail) + 16)).
EdgePixels ==
    {p \in On(detect.paper_candidate) :
        FindEdges(detect.gray_processed).px[p]
            >= Max2(20, Min2(96, (detect.t_bg - detect.t_detail) * 2 + 16))}

-----------------------------------------------------------------------------
\* build_masks_from_gray on a silhouette with a dark pocket: a closed outline
\* ring (level 150, between t_detail and t_bg) along the canvas border, light
\* paper (230) inside it, and pocket pixels darker than t_detail in the paper.

PocketInner == {p \in Canvas(W + 2, H + 2) : p[1] \in 1 .. W /\ p[2] \in 1 .. H}

PocketGrays ==
    {[w |-> W + 2, h |-> H + 2,
      px |-> [p \in Canvas(W + 2, H + 2) |->
                 IF p \notin PocketInner THEN 150 ELSE IF p \in S THEN dark ELSE 230]] :
        S \in SubsetsUpTo(PocketInner, 1), dark \in {50, 120}}

InitPocket ==
    /\ pc = {"params"}
    /\ IdleMorph
    /\ gray \in PocketGrays
    /\ params \in [threshold_bg : {200}, threshold_detail : {140},
                   dilate_px : {0, 1}, detail_join_px : {0, 1}]
    /\ masks = NoMasks
    /\ prev = NoMasks
    /\ has_floodfill \in BOOLEAN
    /\ args = NoArgs
    /\ effective = NoPair
    /\ IdleFlip
    /\ IdleExt

NextPocket == Build

SpecPocket == InitPocket /\ [][NextPocket]_vars

\* Pixels darker than t_detail inside the outline ring.
Pocket == {p \in PocketInner : gray.px[p] < effective.t_detail}

\* C22: when the silhouette enclosed by the outline holds a pocket of pixels
\* darker than t_detail, pixels of the pocket are reported in holes and the
\* pocket is removed from paper.
C22_ShadowedHolesCaught ==
    ("built" \in pc /\ On(masks.filled) # {} /\ Pocket # {}) =>
        /\ On(masks.holes) \cap Pocket # {}
        /\ On(masks.paper) \cap Pocket = {}

=============================================================================
